---- MODULE Spec2Model ----
(***************************************************************************)
(* A model of the drl-crypto-portfolio-management scripts:                 *)
(*   deep_rl_portfolio.py          the command line, main and the trading  *)
(*                                 environments,                           *)
(*   src/plot_train_results.py     the BTC buy-and-hold baseline and the   *)
(*                                 comparison plot,                        *)
(*   src/make_train_histograms.py  filtering and aggregation of a training *)
(*                                 history.                                *)
(* Python dictionaries are functions whose DOMAIN is the set of keys that  *)
(* are present; a dictionary that is shared by reference lives in          *)
(* dict_heap and is named by its address.  Floating point numbers are      *)
(* modelled by exact rationals [num, den] in lowest terms.                 *)
(***************************************************************************)
EXTENDS Integers, Sequences, FiniteSets, TLC

VARIABLES
    params,            \* the values imported from src.params
    pc,                \* position of the running script
    ARGS,              \* the parsed command line
    main_calls,        \* how many times main was entered
    train_configs,     \* the keyword arguments of main
    dict_heap,         \* dictionary objects, by address
    env_objs,          \* TradeEnv objects, by address
    trade_envs,        \* what _initialize_trade_envs returned
    asset_list,
    train_test_val_steps,
    stages,            \* the stages main has gone through, in order
    raised,            \* the exception that ended the script, or "none"
    stepped,           \* the strategy whose environment the training stepped
    btc_csv,           \* the closing prices of the BTC csv the plot read
    btc_result,        \* what _get_btc_price_data_for_period returned
    saved_plots        \* the PNG files written by plot_train_results

pipeVars == <<params, pc, ARGS, main_calls, train_configs, dict_heap, env_objs,
              trade_envs, asset_list, train_test_val_steps, stages, raised,
              stepped, btc_csv, btc_result, saved_plots>>

\* the state of make_train_histograms.py
VARIABLES
    hpc,               \* position of the histogram script
    session_idx,       \* how many sessions the loop has completed
    json_file,         \* what is at the json path of the current session
    hstage,            \* how far make_train_histograms got on that session
    history_dict,      \* the history loaded for the current session
    filtered_history,  \* what filter_history_dict returned for it
    backtest_stats,    \* what aggregate_backtest_stats returned for it
    hraised,           \* the exception that ended the script, or "none"
    saved_histograms   \* the sessions whose histogram PNG was written

histVars == <<hpc, session_idx, json_file, hstage, history_dict, filtered_history, backtest_stats,
              hraised, saved_histograms>>

vars == <<pipeVars, histVars>>

None == "none"

----
\* Bounds of the model.

\* dataset.shape[2], the number of trading periods of the loaded dataset
MaxPeriods == 5
\* the closing prices the rows of the BTC csv are drawn from
PriceSpace == {1, 2, 3}
\* the number of runs of a training history
MaxRuns == 2
\* how many of the session names the loop of the histogram script goes through
MaxSessions == 3

----
\* Exact rationals.

RECURSIVE GCD(_, _)
GCD(a, b) == IF b = 0 THEN a ELSE GCD(b, a % b)

Abs(x) == IF x < 0 THEN -x ELSE x

\* the rational n/d (d > 0) in lowest terms
Rat(n, d) ==
    LET g == GCD(Abs(n), d)
    IN  [num |-> n \div g, den |-> d \div g]

RatMul(x, y) == Rat(x.num * y.num, x.den * y.den)
RatAdd(x, y) == Rat(x.num * y.den + y.num * x.den, x.den * y.den)
RatSub(x, y) == Rat(x.num * y.den - y.num * x.den, x.den * y.den)
RatOfInt(n) == [num |-> n, den |-> 1]

\* int(x) of Python: truncation toward zero
PyInt(x) ==
    IF x.num >= 0 THEN x.num \div x.den ELSE -((-x.num) \div x.den)

----
\* src.params: the module is imported, its values are not known here.

ParamSpace ==
    [ WINDOW_LENGTH    : {50},
      PF_INITIAL_VALUE : {10000, 1000},
      TRADING_COST     : {Rat(25, 10000)},
      INTEREST_RATE    : {Rat(2, 100000)},
      RATIO_TRAIN      : {Rat(6, 10), Rat(1, 3)},
      RATIO_VAL        : {Rat(2, 10), Rat(7, 10)} ]

\* the dictionary literal bound to DEFAULT_TRADE_ENV_ARGS at import
DefaultTradeEnvArgsAtImport(p) ==
    [ window_length   |-> p.WINDOW_LENGTH,
      portfolio_value |-> p.PF_INITIAL_VALUE,
      trading_cost    |-> p.TRADING_COST,
      interest_rate   |-> p.INTEREST_RATE,
      train_size      |-> p.RATIO_TRAIN ]

\* the address of the dictionary the module-level name is bound to
DEFAULT_TRADE_ENV_ARGS == 1

\* d[k] = v of Python
DictSet(d, k, v) ==
    [x \in (DOMAIN d) \cup {k} |-> IF x = k THEN v ELSE d[x]]

----
\* The command line.

ArgSpace ==
    [ plot_results            : BOOLEAN,
      interactive_session     : {FALSE},
      gpu_device              : {None},
      no_of_assets            : {1, 2},
      no_of_batches           : {10},
      batch_size              : {50},
      no_of_episodes          : {2},
      window_length           : {40, 60},
      portfolio_initial_value : {10000, 500},
      verbose                 : {FALSE},
      test_mode               : BOOLEAN,
      quick_test_mode         : BOOLEAN,
      start_date              : {"20170601"},
      end_date                : {"20171231"},
      trading_period_length   : {"1d"} ]

QuickTestConfigs ==
    [ interactive_session   |-> FALSE,
      gpu_device            |-> None,
      verbose               |-> TRUE,
      no_of_assets          |-> 5,
      plot_results          |-> FALSE,
      n_episodes            |-> 1,
      n_batches             |-> 1,
      window_length         |-> 130,
      batch_size            |-> 1,
      portfolio_value       |-> 10000,
      start_date            |-> "20190101",
      end_date              |-> "20190301",
      trading_period_length |-> "4h" ]

TestConfigs ==
    [ interactive_session   |-> FALSE,
      gpu_device            |-> None,
      verbose               |-> TRUE,
      no_of_assets          |-> 5,
      plot_results          |-> TRUE,
      n_episodes            |-> 1,
      n_batches             |-> 1,
      window_length         |-> 77,
      batch_size            |-> 1,
      portfolio_value       |-> 10000,
      start_date            |-> "20190101",
      end_date              |-> "20190301",
      trading_period_length |-> "2h" ]

FlagConfigs(a) ==
    [ interactive_session   |-> a.interactive_session,
      gpu_device            |-> a.gpu_device,
      verbose               |-> a.verbose,
      no_of_assets          |-> a.no_of_assets,
      plot_results          |-> a.plot_results,
      n_episodes            |-> a.no_of_episodes,
      n_batches             |-> a.no_of_batches,
      window_length         |-> a.window_length,
      batch_size            |-> a.batch_size,
      portfolio_value       |-> a.portfolio_initial_value,
      start_date            |-> a.start_date,
      end_date              |-> a.end_date,
      trading_period_length |-> a.trading_period_length ]

\* MainKwargs with the two test branches in the other order
MainKwargs_TestModeFirst(a) ==
    IF a.test_mode THEN TestConfigs
    ELSE IF a.quick_test_mode THEN QuickTestConfigs
    ELSE FlagConfigs(a)

\* the if / elif / else of the __main__ block: the keyword arguments of main
MainKwargs(a) ==
    IF a.quick_test_mode THEN QuickTestConfigs
    ELSE IF a.test_mode THEN TestConfigs
    ELSE FlagConfigs(a)

----
\* deep_rl_portfolio.py

\* get_crypto_price_tensors.main: the dataset it loads for its arguments,
\* with n trading periods on its third axis
GetCryptoPriceTensors(no_of_cryptos, start_date, end_date, trading_period_length, n) ==
    [ dataset |-> [ no_of_cryptos         |-> no_of_cryptos,
                    start_date            |-> start_date,
                    end_date              |-> end_date,
                    trading_period_length |-> trading_period_length,
                    trading_periods       |-> n ],
      asset_names |-> [i \in 1..no_of_cryptos |-> i] ]

\* _get_train_val_test_steps with the validation steps left in the test set
_get_train_val_test_steps_NoVal(trading_period, p) ==
    LET total_steps_train == PyInt(RatMul(p.RATIO_TRAIN, RatOfInt(trading_period)))
        total_steps_val   == PyInt(RatMul(p.RATIO_VAL, RatOfInt(trading_period)))
        total_steps_test  == trading_period - total_steps_train
    IN  [ train      |-> total_steps_train,
          test       |-> total_steps_test,
          validation |-> total_steps_val ]

_get_train_val_test_steps(trading_period, p) ==
    LET total_steps_train == PyInt(RatMul(p.RATIO_TRAIN, RatOfInt(trading_period)))
        total_steps_val   == PyInt(RatMul(p.RATIO_VAL, RatOfInt(trading_period)))
        total_steps_test  == trading_period - total_steps_train - total_steps_val
    IN  [ train      |-> total_steps_train,
          test       |-> total_steps_test,
          validation |-> total_steps_val ]

\* TradeEnv(**trade_env_args): a new object that received the keys and values
\* the dictionary holds at the call
TradeEnv(kwargs) == [kwargs |-> kwargs, index |-> 0]

\* _get_train_environments with the equal-weighted baseline sharing the
\* environment of the policy network
_get_train_environments_SharedEnv(no_of_assets, ref, heap, base) ==
    [ new        |-> [i \in 1..(2 + no_of_assets) |-> TradeEnv(heap[ref])],
      trade_envs |-> [ policy_network     |-> base + 1,
                       equal_weighted     |-> base + 1,
                       only_cash          |-> base + 2,
                       full_on_one_stocks |-> [a \in 1..no_of_assets |-> base + 2 + a],
                       args               |-> ref ] ]

\* _get_train_environments with the dictionary at address ref; the new
\* objects are placed after the `base` objects that exist already
_get_train_environments(no_of_assets, ref, heap, base) ==
    [ new        |-> [i \in 1..(3 + no_of_assets) |-> TradeEnv(heap[ref])],
      trade_envs |-> [ policy_network     |-> base + 1,
                       equal_weighted     |-> base + 2,
                       only_cash          |-> base + 3,
                       full_on_one_stocks |-> [a \in 1..no_of_assets |-> base + 3 + a],
                       args               |-> ref ] ]

\* _initialize_trade_envs on a dataset of n trading periods
_initialize_trade_envs(configs, n, heap, objs, p) ==
    LET loaded == GetCryptoPriceTensors(configs.no_of_assets, configs.start_date,
                                        configs.end_date,
                                        configs.trading_period_length, n)
        trade_env_args == DEFAULT_TRADE_ENV_ARGS
        heap1 == [heap EXCEPT ![trade_env_args] = DictSet(@, "data", loaded.dataset)]
        heap2 == [heap1 EXCEPT ![trade_env_args] =
                                   DictSet(@, "window_length", configs.window_length)]
        trading_periods == loaded.dataset.trading_periods
        steps == _get_train_val_test_steps(trading_periods, p)
        made == _get_train_environments(configs.no_of_assets, trade_env_args,
                                        heap2, Len(objs))
    IN  [ heap       |-> heap2,
          objs       |-> objs \o made.new,
          train_envs |-> made.trade_envs,
          asset_names |-> loaded.asset_names,
          train_test_val_steps |-> steps ]

----
\* src/plot_train_results.py

\* seq[start:] of Python
PySliceFrom(seq, start) ==
    LET len == Len(seq)
        from == IF start < 0
                  THEN (IF len + start < 0 THEN 0 ELSE len + start)
                  ELSE (IF start > len THEN len ELSE start)
    IN  SubSeq(seq, from + 1, len)

\* pct_change relative to the current row instead of the previous one
PctChange_OfCurrent(closes, idx) ==
    IF idx = 0 THEN None
    ELSE Rat(closes[idx + 1] - closes[idx], closes[idx + 1])

\* Series.pct_change(): no value at the first position, then the relative
\* change from the previous row; positions are counted from 0 as in the code
PctChange(closes, idx) ==
    IF idx = 0 THEN None
    ELSE Rat(closes[idx + 1] - closes[idx], closes[idx])

\* the for loop of _get_btc_price_data_for_period, from idx on
RECURSIVE BtcLoop(_, _, _)
BtcLoop(btc_price_data, closes, idx) ==
    IF idx >= Len(closes) THEN btc_price_data
    ELSE LET prev_pf_value == btc_price_data[idx]
             current_price_diff == PctChange(closes, idx)
             changed_btc_pf_value ==
                 RatMul(prev_pf_value, RatAdd(current_price_diff, RatOfInt(1)))
         IN  BtcLoop(Append(btc_price_data, changed_btc_pf_value), closes, idx + 1)

\* _get_btc_price_data_for_period on the rows of the BTC csv; a row's
\* timestamp is its row number
\* _get_btc_price_data_for_period reading the last value of the series
\* instead of the loop variable, so that a short test period returns
_get_btc_price_data_for_period_OnePoint(t_confs, steps, rows) ==
    LET start == steps.train + steps.validation
        btc_data_test_period == PySliceFrom(rows, start)
        test_index == PySliceFrom([i \in 1..Len(rows) |-> i - 1], start)
        first == <<RatOfInt(t_confs.portfolio_value)>>
        btc_price_data == IF Len(btc_data_test_period) < 2 THEN first
                          ELSE BtcLoop(first, btc_data_test_period, 1)
    IN  [ raised           |-> None,
          btc_price_data   |-> btc_price_data,
          index            |-> test_index,
          btc_price_sharpe |->
              [ gain   |-> RatSub(btc_price_data[Len(btc_price_data)],
                                  btc_price_data[1]),
                std_of |-> btc_price_data ] ]

_get_btc_price_data_for_period(t_confs, steps, rows) ==
    LET start == steps.train + steps.validation
        btc_data_test_period == PySliceFrom(rows, start)
        test_index == PySliceFrom([i \in 1..Len(rows) |-> i - 1], start)
        first == <<RatOfInt(t_confs.portfolio_value)>>
        btc_price_data == BtcLoop(first, btc_data_test_period, 1)
        last_idx == Len(btc_data_test_period) - 1
    IN  IF Len(btc_data_test_period) < 2
          THEN \* the loop body never ran: idx is unbound at line 207
               [ raised |-> "UnboundLocalError" ]
          ELSE [ raised           |-> None,
                 btc_price_data   |-> btc_price_data,
                 index            |-> test_index,
                 btc_price_sharpe |->
                     [ gain   |-> RatSub(btc_price_data[last_idx + 1],
                                         btc_price_data[1]),
                       std_of |-> btc_price_data ] ]

\* the name the plot is saved under
OutputFn(configs) ==
    IF "train_session_name" \in DOMAIN configs
      THEN configs.train_session_name
    ELSE IF "test_mode" \in DOMAIN configs /\ configs.test_mode
      THEN "test"
    ELSE "timestamp_now"

\* the parameters plot_train_results declares, none with a default
PlotTrainResultsParams ==
    << "train_configs", "train_performance_lists", "test_performance_lists",
       "asset_list", "train_time_secs", "train_test_val_steps" >>

\* a Python call with positional arguments only to a function whose
\* parameters have no defaults
BindCall(parameters, args) ==
    IF Len(args) # Len(parameters)
      THEN [ raised |-> "TypeError" ]
      ELSE [ raised |-> None, bound |-> args ]

\* plot_train_results with its parameters bound, on the rows of the BTC csv
plot_train_results(bound, rows) ==
    LET configs == bound[1]
        steps == bound[6]
        btc == _get_btc_price_data_for_period(configs, steps, rows)
    IN  IF btc.raised # None
          THEN [ raised |-> btc.raised, btc |-> btc, saved |-> {} ]
          ELSE [ raised |-> None, btc |-> btc,
                 saved  |-> { <<"train_graphs/", "train_results_",
                                OutputFn(configs), ".png">> } ]

----
\* src/make_train_histograms.py
\* A history is a dictionary in the order of its json file: a sequence of
\* <<timestamp, run>> with distinct timestamps.  Weights are in tenths.

\* the literal 0.7 of filter_history_dict, in tenths
HugeWeight == 7

RECURSIVE SeqSum(_)
SeqSum(s) == IF s = <<>> THEN 0 ELSE Head(s) + SeqSum(Tail(s))

NaN == "nan"

\* np.mean: nan for an empty list
NpMean(s) ==
    IF s = <<>> THEN NaN ELSE Rat(SeqSum(s), Len(s))

\* np.std, the population standard deviation, given by its square
NpStd(s) ==
    IF s = <<>> THEN NaN
    ELSE LET n == Len(s)
             sq == [i \in 1..n |-> s[i] * s[i]]
         IN  [ squared |-> Rat(n * SeqSum(sq) - SeqSum(s) * SeqSum(s), n * n) ]

\* d[k] = v on a dictionary kept in insertion order
OrderedPut(d, k, v) ==
    IF \E i \in DOMAIN d : d[i][1] = k
      THEN [i \in DOMAIN d |-> IF d[i][1] = k THEN <<k, v>> ELSE d[i]]
      ELSE Append(d, <<k, v>>)

\* the loop of filter_history_dict with a weight of exactly 0.7 rejected too
RECURSIVE FilterLoop_RejectsBoundary(_, _, _)
FilterLoop_RejectsBoundary(history, i, filtered) ==
    IF i > Len(history) THEN [raised |-> None, value |-> filtered]
    ELSE LET timestamp == history[i][1]
             train_data == history[i][2]
         IN  IF "initial_weights" \notin DOMAIN train_data
               THEN [raised |-> "KeyError"]
             ELSE LET initial_weights == train_data.initial_weights
                  IN  IF \E j \in DOMAIN initial_weights : initial_weights[j] < 0
                        THEN FilterLoop_RejectsBoundary(history, i + 1, filtered)
                      ELSE IF \E j \in DOMAIN initial_weights :
                                  initial_weights[j] >= HugeWeight
                        THEN FilterLoop_RejectsBoundary(history, i + 1, filtered)
                      ELSE FilterLoop_RejectsBoundary(history, i + 1,
                               OrderedPut(filtered, timestamp, train_data))

filter_history_dict_RejectsBoundary(history_dict_) ==
    FilterLoop_RejectsBoundary(history_dict_, 1, <<>>)

\* the loop of filter_history_dict, from item i on
RECURSIVE FilterLoop(_, _, _)
FilterLoop(history, i, filtered) ==
    IF i > Len(history) THEN [raised |-> None, value |-> filtered]
    ELSE LET timestamp == history[i][1]
             train_data == history[i][2]
         IN  IF "initial_weights" \notin DOMAIN train_data
               THEN [raised |-> "KeyError"]
             ELSE LET initial_weights == train_data.initial_weights
                  IN  IF \E j \in DOMAIN initial_weights : initial_weights[j] < 0
                        THEN FilterLoop(history, i + 1, filtered)
                      ELSE IF \E j \in DOMAIN initial_weights :
                                  initial_weights[j] > HugeWeight
                        THEN FilterLoop(history, i + 1, filtered)
                      ELSE FilterLoop(history, i + 1,
                               OrderedPut(filtered, timestamp, train_data))

filter_history_dict(history_dict_) == FilterLoop(history_dict_, 1, <<>>)

\* the statistics before the loop of aggregate_backtest_stats
EmptyStats(first_key, first) ==
    [ dynamic_pf_values      |-> <<>>,
      dynamic_mdds           |-> <<>>,
      dynamic_sharpe_ratios  |-> <<>>,
      static_pf_values       |-> <<>>,
      static_mdds            |-> <<>>,
      static_sharpe_ratios   |-> <<>>,
      cash_investments       |-> <<>>,
      crypto_weight_averages |-> <<>>,
      crypto_weight_std_devs |-> <<>>,
      first_key              |-> first_key,
      asset_list             |-> first.asset_list,
      eq_pf_value            |-> first.eq_weight.pf_value,
      eq_sharpe_ratio        |-> first.eq_weight.sharpe_ratio,
      eq_mdd                 |-> first.eq_weight.mdd,
      test_start             |-> "NA",
      test_end               |-> "NA",
      trading_period_length  |-> "NA" ]

\* the weights the crypto statistics of a run are taken from
CryptoWeights_WithCash(initial_weights) == initial_weights

CryptoWeights(initial_weights) == Tail(initial_weights)

\* the loop of aggregate_backtest_stats, from item i on
RECURSIVE AggregateLoop(_, _, _)
AggregateLoop(filtered, i, st) ==
    IF i > Len(filtered) THEN [raised |-> None, value |-> st]
    ELSE LET session_stats == filtered[i][2]
             st1 == IF "test_start" \in DOMAIN session_stats
                      THEN [st EXCEPT !.test_start = session_stats.test_start]
                      ELSE st
             st2 == IF "test_end" \in DOMAIN session_stats
                      THEN [st1 EXCEPT !.test_end = session_stats.test_end]
                      ELSE st1
             st3 == IF "trading_period_length" \in DOMAIN session_stats
                      THEN [st2 EXCEPT !.trading_period_length =
                                            session_stats.trading_period_length]
                      ELSE st2
         IN  IF "dynamic" \notin DOMAIN session_stats THEN [raised |-> "KeyError"]
             ELSE IF "static" \notin DOMAIN session_stats THEN [raised |-> "KeyError"]
             ELSE IF "initial_weights" \notin DOMAIN session_stats
               THEN [raised |-> "KeyError"]
             ELSE LET dynamic == session_stats.dynamic
                      static == session_stats.static
                      initial_weights == session_stats.initial_weights
                  IN  IF initial_weights = <<>> THEN [raised |-> "IndexError"]
                      ELSE LET crypto_weights == CryptoWeights(initial_weights)
                           IN  AggregateLoop(filtered, i + 1,
                                 [st3 EXCEPT
                                   !.dynamic_pf_values = Append(@, dynamic.pf_value),
                                   !.dynamic_mdds = Append(@, dynamic.mdd),
                                   !.dynamic_sharpe_ratios =
                                       Append(@, dynamic.sharpe_ratio),
                                   !.static_pf_values = Append(@, static.pf_value),
                                   !.static_mdds = Append(@, static.mdd),
                                   !.static_sharpe_ratios =
                                       Append(@, static.sharpe_ratio),
                                   !.cash_investments = Append(@, initial_weights[1]),
                                   !.crypto_weight_averages =
                                       Append(@, NpMean(crypto_weights)),
                                   !.crypto_weight_std_devs =
                                       Append(@, NpStd(crypto_weights))])

\* aggregate_backtest_stats returning empty statistics for no runs
aggregate_backtest_stats_EmptyOk(filtered) ==
    IF filtered = <<>>
      THEN [ raised |-> None,
             value  |-> EmptyStats("NA", [ asset_list |-> <<>>,
                                           eq_weight  |-> [ pf_value |-> 0, mdd |-> 0,
                                                            sharpe_ratio |-> 0 ] ]) ]
    ELSE LET first_key == filtered[1][1]
             first == filtered[1][2]
         IN  IF "asset_list" \notin DOMAIN first THEN [raised |-> "KeyError"]
             ELSE IF "eq_weight" \notin DOMAIN first THEN [raised |-> "KeyError"]
             ELSE AggregateLoop(filtered, 1, EmptyStats(first_key, first))

\* aggregate_backtest_stats taking the equal-weight baseline, the asset list
\* and the key from the last run
aggregate_backtest_stats_LastRun(filtered) ==
    IF filtered = <<>> THEN [raised |-> "IndexError"]
    ELSE LET first_key == filtered[Len(filtered)][1]
             first == filtered[Len(filtered)][2]
         IN  IF "asset_list" \notin DOMAIN first THEN [raised |-> "KeyError"]
             ELSE IF "eq_weight" \notin DOMAIN first THEN [raised |-> "KeyError"]
             ELSE AggregateLoop(filtered, 1, EmptyStats(first_key, first))

aggregate_backtest_stats(filtered) ==
    IF filtered = <<>> THEN [raised |-> "IndexError"]
    ELSE LET first_key == filtered[1][1]
             first == filtered[1][2]
         IN  IF "asset_list" \notin DOMAIN first THEN [raised |-> "KeyError"]
             ELSE IF "eq_weight" \notin DOMAIN first THEN [raised |-> "KeyError"]
             ELSE AggregateLoop(filtered, 1, EmptyStats(first_key, first))

\* what may be at a json path: no file, or a history
Missing == [exists |-> FALSE, history |-> <<>>]

JsonFile(history) == [exists |-> TRUE, history |-> history]

\* make_train_histograms on what is at the json path: what it raised, its
\* locals, and whether it reached savefig
make_train_histograms(file) ==
    IF ~file.exists
      THEN [ raised |-> "FileNotFoundError", stage |-> "none",
             history_dict |-> None, filtered_history |-> None,
             backtest_stats |-> None ]
    ELSE LET f == filter_history_dict(file.history)
         IN  IF f.raised # None
               THEN [ raised |-> f.raised, stage |-> "loaded",
                      history_dict |-> file.history, filtered_history |-> None,
                      backtest_stats |-> None ]
             ELSE LET a == aggregate_backtest_stats(f.value)
                  IN  IF a.raised # None
                        THEN [ raised |-> a.raised, stage |-> "filtered",
                               history_dict |-> file.history,
                               filtered_history |-> f.value,
                               backtest_stats |-> None ]
                        ELSE [ raised |-> None, stage |-> "saved",
                               history_dict |-> file.history,
                               filtered_history |-> f.value,
                               backtest_stats |-> a.value ]

\* the session names of the __main__ block
AllSessionNames ==
    << "All_Time_High__2017", "15_minute_trade_interval",
       "5_minute_trade_interval", "Recent_year__2019", "Bear_year__2018",
       "Jiang_et_al._backtest__#1", "Jiang_et_al._backtest__#2",
       "Jiang_et_al._backtest__#3" >>

\* the session names the loop goes through
SessionNames == SubSeq(AllSessionNames, 1, MaxSessions)

\* The values the runs of the model carry: dates and period lengths are
\* strings in the json file, as the "NA" that stands for a missing one is.
TestStarts ==
    << "2019-01-01", "2019-01-02", "2019-01-03", "2019-01-04", "2019-01-05",
       "2019-01-06", "2019-01-07", "2019-01-08", "2019-01-09", "2019-01-10" >>

TestEnds ==
    << "2019-03-01", "2019-03-02", "2019-03-03", "2019-03-04", "2019-03-05",
       "2019-03-06", "2019-03-07", "2019-03-08", "2019-03-09", "2019-03-10" >>

PeriodLengths ==
    << "5min", "15min", "30min", "2h", "4h", "1d", "6h", "12h", "1h", "3d" >>

\* The runs the histories of the model are made of.
RunOf(w, tag) ==
    [ initial_weights       |-> w,
      dynamic               |-> [pf_value |-> 100 + tag, mdd |-> 200 + tag,
                                 sharpe_ratio |-> 300 + tag],
      static                |-> [pf_value |-> 400 + tag, mdd |-> 500 + tag,
                                 sharpe_ratio |-> 600 + tag],
      eq_weight             |-> [pf_value |-> 700 + tag, mdd |-> 800 + tag,
                                 sharpe_ratio |-> 900 + tag],
      asset_list            |-> IF tag % 2 = 1 THEN <<"ETH", "XRP">>
                                 ELSE <<"ETH", "LTC", "XRP">>,
      test_start            |-> TestStarts[tag],
      test_end              |-> TestEnds[tag],
      trading_period_length |-> PeriodLengths[tag] ]

Without(run, keys) == [k \in (DOMAIN run) \ keys |-> run[k]]

RunSpace ==
    { RunOf(<<0, 7, 3>>, 1),
      Without(RunOf(<<2, 4, 5>>, 2), {"test_start", "test_end",
                                      "trading_period_length"}),
      RunOf(<<6, -1, 5>>, 3),
      Without(RunOf(<<1, 1, 8>>, 4), {"dynamic"}),
      RunOf(<<5>>, 5),
      Without(RunOf(<<3, 3, 4>>, 6), {"initial_weights"}),
      Without(RunOf(<<3, 3, 4>>, 7), {"dynamic"}),
      Without(RunOf(<<3, 3, 4>>, 8), {"static"}),
      Without(RunOf(<<3, 3, 4>>, 9), {"asset_list"}),
      Without(RunOf(<<3, 3, 4>>, 10), {"eq_weight"}) }

\* the timestamp key of the i-th run of a json file
TimestampOf(i) == 20190000 + 7 * i

HistorySpace ==
    UNION { { [i \in 1..k |-> <<TimestampOf(i), runs[i]>>] :
                runs \in [1..k -> RunSpace] } : k \in 0..MaxRuns }

HistInit ==
    /\ hpc = "loop"
    /\ session_idx = 0
    /\ json_file = None
    /\ hstage = "none"
    /\ history_dict = None
    /\ filtered_history = None
    /\ backtest_stats = None
    /\ hraised = None
    /\ saved_histograms = {}

\* the __main__ loop with a failed session skipped
MakeTrainHistograms_SkipFailed ==
    /\ hpc = "loop"
    /\ \E file \in {Missing} \cup {JsonFile(h) : h \in HistorySpace} :
         LET name == SessionNames[session_idx + 1]
             r == make_train_histograms(file)
         IN  /\ json_file' = file
             /\ hstage' = r.stage
             /\ history_dict' = r.history_dict
             /\ filtered_history' = r.filtered_history
             /\ backtest_stats' = r.backtest_stats
             /\ hraised' = None
             /\ saved_histograms' =
                    IF r.stage = "saved" THEN saved_histograms \cup {name}
                    ELSE saved_histograms
             /\ session_idx' = session_idx + 1
             /\ hpc' = IF session_idx + 1 = Len(SessionNames) THEN "done" ELSE "loop"

\* one turn of the __main__ loop: make_train_histograms on the next session
MakeTrainHistograms ==
    /\ hpc = "loop"
    /\ \E file \in {Missing} \cup {JsonFile(h) : h \in HistorySpace} :
         LET name == SessionNames[session_idx + 1]
             r == make_train_histograms(file)
         IN  /\ json_file' = file
             /\ hstage' = r.stage
             /\ history_dict' = r.history_dict
             /\ filtered_history' = r.filtered_history
             /\ backtest_stats' = r.backtest_stats
             /\ hraised' = r.raised
             /\ IF r.raised # None
                  THEN /\ hpc' = "raised"
                       /\ UNCHANGED <<session_idx, saved_histograms>>
                  ELSE /\ saved_histograms' = saved_histograms \cup {name}
                       /\ session_idx' = session_idx + 1
                       /\ hpc' = IF session_idx + 1 = Len(SessionNames)
                                   THEN "done" ELSE "loop"

----
\* The run of deep_rl_portfolio.py as a script.

PipeInit ==
    /\ params \in ParamSpace
    /\ pc = "start"
    /\ ARGS = None
    /\ main_calls = 0
    /\ train_configs = None
    /\ dict_heap = <<DefaultTradeEnvArgsAtImport(params)>>
    /\ env_objs = <<>>
    /\ trade_envs = None
    /\ asset_list = None
    /\ train_test_val_steps = None
    /\ stages = <<>>
    /\ raised = None
    /\ stepped = <<None, 0>>
    /\ btc_csv = None
    /\ btc_result = None
    /\ saved_plots = {}

\* the __main__ block: parse the command line and enter main
Cli ==
    /\ pc = "start"
    /\ \E a \in ArgSpace :
         /\ ARGS' = a
         /\ train_configs' = MainKwargs(a)
    /\ main_calls' = main_calls + 1
    /\ pc' = "main"
    /\ UNCHANGED <<params, dict_heap, env_objs, trade_envs, asset_list,
                   train_test_val_steps, stages, raised, stepped, btc_csv,
                   btc_result, saved_plots>>
    /\ UNCHANGED histVars

\* main, line 40: the trading environments
InitializeTradeEnvs ==
    /\ pc = "main"
    /\ \E n \in 0..MaxPeriods :
         LET r == _initialize_trade_envs(train_configs, n, dict_heap, env_objs, params)
         IN  /\ dict_heap' = r.heap
             /\ env_objs' = r.objs
             /\ trade_envs' = r.train_envs
             /\ asset_list' = r.asset_names
             /\ train_test_val_steps' = r.train_test_val_steps
    /\ stages' = Append(stages, "environment")
    /\ pc' = "envs"
    /\ UNCHANGED <<params, ARGS, main_calls, train_configs, raised, stepped,
                   btc_csv, btc_result, saved_plots>>
    /\ UNCHANGED histVars

\* the strategies that own an environment
Strategies(envs) ==
    {<<"policy_network", 0>>, <<"equal_weighted", 0>>, <<"only_cash", 0>>}
        \cup {<<"full_on_one_stocks", a>> : a \in DOMAIN envs.full_on_one_stocks}

\* the address of the environment of a strategy
EnvOf(envs, s) ==
    IF s[1] = "full_on_one_stocks" THEN envs.full_on_one_stocks[s[2]]
    ELSE envs[s[1]]

\* main, lines 43-45: train_rl_algorithm, which steps the environment of a
\* strategy
TrainRlAlgorithm ==
    /\ pc = "envs"
    /\ \E s \in Strategies(trade_envs) :
         /\ env_objs' = [env_objs EXCEPT ![EnvOf(trade_envs, s)].index = @ + 1]
         /\ stepped' = s
    /\ stages' = Append(stages, "training")
    /\ pc' = "trained"
    /\ UNCHANGED <<params, ARGS, main_calls, train_configs, dict_heap, trade_envs,
                   asset_list, train_test_val_steps, raised, btc_csv,
                   btc_result, saved_plots>>
    /\ UNCHANGED histVars

\* main, lines 48-50: test_rl_algorithm
TestRlAlgorithm ==
    /\ pc = "trained"
    /\ stages' = Append(stages, "evaluation")
    /\ pc' = "tested"
    /\ UNCHANGED <<params, ARGS, main_calls, train_configs, dict_heap, env_objs,
                   trade_envs, asset_list, train_test_val_steps, raised, stepped,
                   btc_csv, btc_result, saved_plots>>
    /\ UNCHANGED histVars

\* the positional arguments of the call at lines 59-65 of main
MainPlotArgs(configs, assets) ==
    << configs, "test_performance_lists", "train_performance_lists", "stocks",
       assets >>

\* main, lines 58-65: the plot, when it is asked for
MainPlotResults ==
    /\ pc = "tested"
    /\ IF train_configs.plot_results
         THEN LET call == BindCall(PlotTrainResultsParams,
                                   MainPlotArgs(train_configs, asset_list))
              IN  IF call.raised # None
                    THEN /\ raised' = call.raised
                         /\ pc' = "raised"
                         /\ UNCHANGED <<stages, btc_csv, btc_result, saved_plots>>
                    ELSE \E rows \in UNION {[1..k -> PriceSpace] : k \in 0..MaxPeriods} :
                           LET r == plot_train_results(call.bound, rows)
                           IN  /\ raised' = r.raised
                               /\ pc' = IF r.raised = None THEN "done" ELSE "raised"
                               /\ stages' = Append(stages, "plot")
                               /\ btc_csv' = rows
                               /\ btc_result' = r.btc
                               /\ saved_plots' = saved_plots \cup r.saved
         ELSE /\ pc' = "done"
              /\ UNCHANGED <<raised, stages, btc_csv, btc_result, saved_plots>>
    /\ UNCHANGED <<params, ARGS, main_calls, train_configs, dict_heap, env_objs,
                   trade_envs, asset_list, train_test_val_steps, stepped>>
    /\ UNCHANGED histVars

\* plot_train_results called with the parameters it declares, on the
\* configuration and the steps of the environments; the BTC csv has one row
\* per trading period of the dataset
CallPlotTrainResults ==
    /\ pc = "envs"
    /\ \E rows \in [1..dict_heap[trade_envs.args].data.trading_periods -> PriceSpace] :
         LET call == BindCall(PlotTrainResultsParams,
                              << train_configs, "train_performance_lists",
                                 "test_performance_lists", asset_list,
                                 "train_time_secs", train_test_val_steps >>)
             r == plot_train_results(call.bound, rows)
         IN  /\ raised' = r.raised
             /\ pc' = IF r.raised = None THEN "plotted" ELSE "raised"
             /\ btc_csv' = rows
             /\ btc_result' = r.btc
             /\ saved_plots' = saved_plots \cup r.saved
    /\ stages' = Append(stages, "plot")
    /\ UNCHANGED <<params, ARGS, main_calls, train_configs, dict_heap, env_objs,
                   trade_envs, asset_list, train_test_val_steps, stepped>>
    /\ UNCHANGED histVars

HistIdle ==
    /\ hpc = "idle"
    /\ session_idx = 0
    /\ json_file = None
    /\ hstage = "none"
    /\ history_dict = None
    /\ filtered_history = None
    /\ backtest_stats = None
    /\ hraised = None
    /\ saved_histograms = {}

Init == PipeInit /\ HistIdle

Next ==
    \/ Cli
    \/ InitializeTradeEnvs
    \/ TrainRlAlgorithm
    \/ TestRlAlgorithm
    \/ MainPlotResults

Spec == Init /\ [][Next]_vars

\* the functions of the plot called in turn by a caller that passes the
\* parameters they declare
NextPlot ==
    \/ Cli
    \/ InitializeTradeEnvs
    \/ CallPlotTrainResults

SpecPlot == Init /\ [][NextPlot]_vars

\* The run of make_train_histograms.py as a script.
NextHist == MakeTrainHistograms /\ UNCHANGED pipeVars

PipeIdle ==
    /\ params \in {p \in ParamSpace : p.PF_INITIAL_VALUE = 10000
                                      /\ p.RATIO_TRAIN = Rat(6, 10)
                                      /\ p.RATIO_VAL = Rat(2, 10)}
    /\ pc = "idle"
    /\ ARGS = None
    /\ main_calls = 0
    /\ train_configs = None
    /\ dict_heap = <<>>
    /\ env_objs = <<>>
    /\ trade_envs = None
    /\ asset_list = None
    /\ train_test_val_steps = None
    /\ stages = <<>>
    /\ raised = None
    /\ stepped = <<None, 0>>
    /\ btc_csv = None
    /\ btc_result = None
    /\ saved_plots = {}

InitHist == PipeIdle /\ HistInit

SpecHist == InitHist /\ [][NextHist]_vars

----
\* Properties of deep_rl_portfolio.py and of the BTC baseline.

AfterEnvs == pc \notin {"start", "main"}

\* the dataset _initialize_trade_envs stored under "data"
LoadedDataset == dict_heap[DEFAULT_TRADE_ENV_ARGS].data

\* C3: the first value of the BTC baseline is the initial portfolio value
\* every TradeEnv was constructed with, whatever the configuration.
C3_BtcSameMagnitudeAsEnvs ==
    pc = "plotted" =>
        \A e \in DOMAIN env_objs :
            btc_result.btc_price_data[1]
                = RatOfInt(env_objs[e].kwargs.portfolio_value)

\* the first row of the test period, counted from 0
TestStart == train_test_val_steps.train + train_test_val_steps.validation

\* the number of closing prices of the test period
TestLen == Len(btc_csv) - TestStart

\* C4: with k >= 2 closing prices c in the test period the baseline is a
\* series v of k values, v[0] the portfolio value and
\* v[i] * c[i-1] = v[i-1] * c[i] after it, indexed by the k timestamps of the
\* test period.
C4_BtcSeries ==
    (pc \in {"plotted", "raised"} /\ TestStart >= 0 /\ TestLen >= 2) =>
        /\ pc = "plotted"
        /\ LET v == btc_result.btc_price_data
               c == [i \in 1..TestLen |-> btc_csv[TestStart + i]]
           IN  /\ Len(v) = TestLen
               /\ v[1].num = train_configs.portfolio_value * v[1].den
               /\ \A i \in 2..TestLen :
                      v[i].num * c[i - 1] * v[i - 1].den
                          = v[i - 1].num * c[i] * v[i].den
               /\ btc_result.index = [i \in 1..TestLen |-> TestStart + i - 1]

C4_Witness ==
    /\ pc = "plotted"
    /\ TestLen >= 3
    /\ btc_csv[TestStart + 1] = 2
    /\ btc_csv[TestStart + 2] = 3
    /\ btc_csv[TestStart + 3] = 1

\* C5: main goes through environment construction, training and evaluation
\* in this order, and with plot_results it then plots, saves the plot and
\* completes normally; without plot_results it saves nothing.
C5_MainPlotsAndCompletes ==
    pc \in {"done", "raised"} =>
        /\ pc = "done"
        /\ IF train_configs.plot_results
             THEN /\ stages = <<"environment", "training", "evaluation", "plot">>
                  /\ saved_plots # {}
             ELSE /\ stages = <<"environment", "training", "evaluation">>
                  /\ saved_plots = {}

\* C6: the dictionary bound to DEFAULT_TRADE_ENV_ARGS keeps the keys and the
\* values it had at import.
C6_DefaultArgsAsAtImport ==
    LET d == dict_heap[DEFAULT_TRADE_ENV_ARGS]
    IN  /\ DOMAIN d = {"window_length", "portfolio_value", "trading_cost",
                       "interest_rate", "train_size"}
        /\ d.window_length = params.WINDOW_LENGTH

\* C8: main is called once; quick_test_mode wins over test_mode and both
\* use their fixed configuration; otherwise the configuration is the flags;
\* the dataset and the environments are made from the configuration.
C8_CliConfigs ==
    /\ main_calls = (IF pc = "start" THEN 0 ELSE 1)
    /\ pc # "start" =>
         /\ ARGS.quick_test_mode =>
              /\ train_configs.window_length = 130
              /\ train_configs.trading_period_length = "4h"
              /\ train_configs.start_date = "20190101"
              /\ train_configs.end_date = "20190301"
              /\ train_configs.no_of_assets = 5
              /\ train_configs.n_episodes = 1
              /\ train_configs.n_batches = 1
              /\ train_configs.batch_size = 1
              /\ train_configs.portfolio_value = 10000
              /\ train_configs.verbose = TRUE
              /\ train_configs.plot_results = FALSE
         /\ (~ARGS.quick_test_mode /\ ARGS.test_mode) =>
              /\ train_configs.window_length = 77
              /\ train_configs.trading_period_length = "2h"
              /\ train_configs.start_date = "20190101"
              /\ train_configs.end_date = "20190301"
              /\ train_configs.no_of_assets = 5
              /\ train_configs.n_episodes = 1
              /\ train_configs.n_batches = 1
              /\ train_configs.batch_size = 1
              /\ train_configs.portfolio_value = 10000
              /\ train_configs.verbose = TRUE
              /\ train_configs.plot_results = TRUE
         /\ (~ARGS.quick_test_mode /\ ~ARGS.test_mode) =>
              /\ train_configs.no_of_assets = ARGS.no_of_assets
              /\ train_configs.n_episodes = ARGS.no_of_episodes
              /\ train_configs.n_batches = ARGS.no_of_batches
              /\ train_configs.window_length = ARGS.window_length
              /\ train_configs.batch_size = ARGS.batch_size
              /\ train_configs.start_date = ARGS.start_date
              /\ train_configs.end_date = ARGS.end_date
              /\ train_configs.trading_period_length = ARGS.trading_period_length
    /\ AfterEnvs =>
         /\ LoadedDataset.no_of_cryptos = train_configs.no_of_assets
         /\ LoadedDataset.start_date = train_configs.start_date
         /\ LoadedDataset.end_date = train_configs.end_date
         /\ LoadedDataset.trading_period_length = train_configs.trading_period_length
         /\ Len(trade_envs.full_on_one_stocks) = train_configs.no_of_assets
         /\ \A e \in DOMAIN env_objs :
              /\ env_objs[e].kwargs.window_length = train_configs.window_length
              /\ env_objs[e].kwargs.data = LoadedDataset

C8_Witness ==
    /\ pc = "envs"
    /\ ARGS.quick_test_mode
    /\ ARGS.test_mode
    /\ ARGS.window_length = 60

C10_DistinctEnvironments ==
    AfterEnvs =>
        LET n == train_configs.no_of_assets
            refs == {EnvOf(trade_envs, s) : s \in Strategies(trade_envs)}
        IN  /\ Len(env_objs) = 3 + n
            /\ Len(trade_envs.full_on_one_stocks) = n
            /\ Cardinality(Strategies(trade_envs)) = 3 + n
            /\ Cardinality(refs) = 3 + n
            /\ refs = DOMAIN env_objs
            /\ \A e, f \in DOMAIN env_objs : env_objs[e].kwargs = env_objs[f].kwargs
            /\ stepped # <<None, 0>> =>
                 \A t \in Strategies(trade_envs) :
                     env_objs[EnvOf(trade_envs, t)].index
                         = (IF t = stepped THEN 1 ELSE 0)

C10_Witness ==
    /\ pc = "trained"
    /\ train_configs.no_of_assets = 2
    /\ stepped = <<"equal_weighted", 0>>
    /\ env_objs[trade_envs.equal_weighted].index = 1
    /\ env_objs[trade_envs.policy_network].index = 0

----
\* Properties of make_train_histograms.py.

\* a run every weight of which is at least 0 and at most 0.7
WeightsInRange(item) ==
    \A j \in DOMAIN item[2].initial_weights :
        /\ item[2].initial_weights[j] >= 0
        /\ item[2].initial_weights[j] <= 7

\* C1: filter_history_dict returns exactly the runs without a weight below 0
\* or above 0.7, each under its timestamp with its run data, in the order
\* of the history.
C1_FilterKeepsRunsInRange ==
    hstage \in {"filtered", "saved"} =>
        filtered_history = SelectSeq(history_dict, WeightsInRange)

C1_Witness ==
    /\ hstage = "saved"
    /\ Len(history_dict) = 2
    /\ \E j \in DOMAIN history_dict[1][2].initial_weights :
           history_dict[1][2].initial_weights[j] < 0
    /\ history_dict[2][2].initial_weights = <<0, 7, 3>>
    /\ filtered_history = <<history_dict[2]>>

\* C2: for a non-empty filtered history of n runs the nine lists have n
\* elements, the i-th taken from the i-th run: dynamic and static values,
\* the cash weight initial_weights[0], and the mean and the standard
\* deviation of initial_weights[1:].
C2_AggregateListsPerRun ==
    hstage = "saved" =>
        LET n == Len(filtered_history)
            b == backtest_stats
        IN  /\ \A l \in { b.dynamic_pf_values, b.dynamic_mdds,
                          b.dynamic_sharpe_ratios, b.static_pf_values,
                          b.static_mdds, b.static_sharpe_ratios,
                          b.cash_investments } : Len(l) = n
            /\ Len(b.crypto_weight_averages) = n
            /\ Len(b.crypto_weight_std_devs) = n
            /\ \A i \in 1..n :
                 LET run == filtered_history[i][2]
                     w == run.initial_weights
                     m == Len(w) - 1
                     crypto == [j \in 1..m |-> w[j + 1]]
                     total == SeqSum(crypto)
                     squares == SeqSum([j \in 1..m |-> crypto[j] * crypto[j]])
                 IN  /\ b.dynamic_pf_values[i] = run.dynamic.pf_value
                     /\ b.dynamic_mdds[i] = run.dynamic.mdd
                     /\ b.dynamic_sharpe_ratios[i] = run.dynamic.sharpe_ratio
                     /\ b.static_pf_values[i] = run.static.pf_value
                     /\ b.static_mdds[i] = run.static.mdd
                     /\ b.static_sharpe_ratios[i] = run.static.sharpe_ratio
                     /\ b.cash_investments[i] = w[1]
                     /\ m > 0 =>
                          /\ b.crypto_weight_averages[i].num * m
                                 = b.crypto_weight_averages[i].den * total
                          /\ b.crypto_weight_std_devs[i].squared.num * m * m
                                 = b.crypto_weight_std_devs[i].squared.den
                                       * (m * squares - total * total)

C2_Witness ==
    /\ hstage = "saved"
    /\ Len(filtered_history) = 2
    /\ filtered_history[1][2].initial_weights = <<2, 4, 5>>
    /\ filtered_history[2][2].initial_weights = <<0, 7, 3>>
    /\ backtest_stats.cash_investments = <<2, 0>>
    /\ backtest_stats.dynamic_pf_values = <<102, 101>>

\* what makes loading, filtering or aggregating a json file fail
FailureOf(file) ==
    \/ ~file.exists
    \/ \E i \in DOMAIN file.history : "initial_weights" \notin DOMAIN file.history[i][2]
    \/ LET kept == SelectSeq(file.history, WeightsInRange)
       IN  \/ kept = <<>>
           \/ "asset_list" \notin DOMAIN kept[1][2]
           \/ "eq_weight" \notin DOMAIN kept[1][2]
           \/ \E i \in DOMAIN kept : "dynamic" \notin DOMAIN kept[i][2]
           \/ \E i \in DOMAIN kept : "static" \notin DOMAIN kept[i][2]
           \/ \E i \in DOMAIN kept : kept[i][2].initial_weights = <<>>

SessionAttempted == session_idx > 0 \/ hpc = "raised"

\* C7: a session whose history fails to load, filter or aggregate ends the
\* script with the exception: its PNG is not saved, nothing stands in for
\* the statistics, and no later session is processed.
C7_FailurePropagates ==
    SessionAttempted =>
        /\ FailureOf(json_file) <=> hpc = "raised"
        /\ saved_histograms = {SessionNames[j] : j \in 1..session_idx}
        /\ hpc = "raised" =>
             /\ hraised \in {"FileNotFoundError", "KeyError", "IndexError"}
             /\ hstage # "saved"
             /\ SessionNames[session_idx + 1] \notin saved_histograms
             /\ ~ENABLED MakeTrainHistograms
        /\ hpc # "raised" => (hraised = None /\ hstage = "saved")

C7_Witness ==
    /\ hpc = "raised"
    /\ session_idx = 1
    /\ saved_histograms = {SessionNames[1]}
    /\ hraised = "KeyError"
    /\ hstage = "filtered"
    /\ "dynamic" \notin DOMAIN filtered_history[1][2]

----
\* The name of the plot.

\* d.update(e) of Python
DictUpdate(d, e) ==
    [k \in (DOMAIN d) \cup (DOMAIN e) |-> IF k \in DOMAIN e THEN e[k] ELSE d[k]]

\* the keys plot_train_results looks for and the command line never sets
SessionKeySpace ==
    { [train_session_name |-> "Recent_year__2019"],
      [test_mode |-> TRUE],
      [test_mode |-> FALSE],
      [train_session_name |-> "Recent_year__2019", test_mode |-> TRUE] }

\* a caller other than the __main__ block gives the configuration a session
\* name, a test_mode, or both
CallerNamesSession ==
    /\ pc = "main"
    /\ DOMAIN train_configs = DOMAIN QuickTestConfigs
    /\ \E e \in SessionKeySpace : train_configs' = DictUpdate(train_configs, e)
    /\ UNCHANGED <<params, pc, ARGS, main_calls, dict_heap, env_objs, trade_envs,
                   asset_list, train_test_val_steps, stages, raised, stepped,
                   btc_csv, btc_result, saved_plots>>
    /\ UNCHANGED histVars

NextName ==
    \/ Cli
    \/ CallerNamesSession
    \/ InitializeTradeEnvs
    \/ CallPlotTrainResults

SpecName == Init /\ [][NextName]_vars

PlotPath(name) == <<"train_graphs/", "train_results_", name, ".png">>

\* The rule of the plot's name taken alone: the session name when the key is
\* present, else "test" when test_mode is present and true, else the
\* timestamp.
OutputNamePriority ==
    pc = "plotted" =>
        saved_plots =
            { PlotPath(IF "train_session_name" \in DOMAIN train_configs
                         THEN train_configs.train_session_name
                       ELSE IF "test_mode" \in DOMAIN train_configs
                         THEN (IF train_configs.test_mode THEN "test"
                               ELSE "timestamp_now")
                       ELSE "timestamp_now") }

\* C11: the plot is saved as train_graphs/train_results_<name>.png, <name>
\* by the priority session name, "test", timestamp; so a run started through
\* main with --test_mode, whose configuration has no test_mode key, is saved
\* under the timestamp and not under "test".
C11_TestModeRunSavedUnderTimestamp ==
    /\ OutputNamePriority
    /\ (/\ pc \in {"done", "raised"}
        /\ ARGS.test_mode
        /\ ~ARGS.quick_test_mode) =>
           /\ "test_mode" \notin DOMAIN train_configs
           /\ saved_plots = {PlotPath("timestamp_now")}

----
\* Properties of the aggregation on few or no runs.

\* C12: when the filter keeps no run, aggregate_backtest_stats raises on
\* the first key, make_train_histograms fails before anything is drawn and
\* no PNG is written; statistics are never returned for zero runs.
C12_NoRunsRaises ==
    SessionAttempted =>
        /\ (/\ json_file.exists
            /\ \A i \in DOMAIN json_file.history :
                   "initial_weights" \in DOMAIN json_file.history[i][2]
            /\ SelectSeq(json_file.history, WeightsInRange) = <<>>) =>
               /\ hpc = "raised"
               /\ hraised = "IndexError"
               /\ hstage = "filtered"
               /\ SessionNames[session_idx + 1] \notin saved_histograms
        /\ hstage = "saved" =>
               /\ Len(filtered_history) >= 1
               /\ Len(backtest_stats.dynamic_pf_values) >= 1
               /\ Len(backtest_stats.cash_investments) >= 1

C12_Witness ==
    /\ hpc = "raised"
    /\ hraised = "IndexError"
    /\ hstage = "filtered"
    /\ Len(history_dict) = 2
    /\ Len(filtered_history) = 0
    /\ session_idx = 1
    /\ saved_histograms = {SessionNames[1]}

SetMax(S) == CHOOSE x \in S : \A y \in S : y <= x

SetMin(S) == CHOOSE x \in S : \A y \in S : x <= y

\* C13: the equal-weight baseline, the asset list and first_key are those of
\* the first run the filter kept, whatever the later runs are; test_start,
\* test_end and trading_period_length are each from the last run that
\* carries the key, and "NA" exactly when none does.
C13_FirstRunAndLastCarrier ==
    hstage = "saved" =>
        LET f == filtered_history
            b == backtest_stats
            first_kept == SetMin({i \in DOMAIN history_dict :
                                      WeightsInRange(history_dict[i])})
        IN  /\ b.first_key = f[1][1]
            /\ b.first_key = history_dict[first_kept][1]
            /\ b.asset_list = history_dict[first_kept][2].asset_list
            /\ b.eq_pf_value = history_dict[first_kept][2].eq_weight.pf_value
            /\ b.eq_sharpe_ratio = history_dict[first_kept][2].eq_weight.sharpe_ratio
            /\ b.eq_mdd = history_dict[first_kept][2].eq_weight.mdd
            /\ \A k \in {"test_start", "test_end", "trading_period_length"} :
                 LET carriers == {i \in DOMAIN f : k \in DOMAIN f[i][2]}
                 IN  IF carriers = {}
                       THEN b[k] = "NA"
                       ELSE /\ b[k] = f[SetMax(carriers)][2][k]
                            /\ b[k] # "NA"

C13_Witness ==
    /\ hstage = "saved"
    /\ Len(filtered_history) = 2
    /\ "test_start" \in DOMAIN filtered_history[1][2]
    /\ "test_start" \notin DOMAIN filtered_history[2][2]
    /\ backtest_stats.test_start = filtered_history[1][2].test_start
    /\ backtest_stats.first_key = TimestampOf(1)
    /\ backtest_stats.eq_pf_value = 701
    /\ filtered_history[2][2].eq_weight.pf_value = 702

----
\* The baseline on a short test period.

\* C14: _get_btc_price_data_for_period returns a series only when the test
\* period has at least two closing prices; with zero or one it raises on the
\* unbound loop variable, nothing is plotted and nothing is saved.
C14_ShortTestPeriodRaises ==
    pc \in {"plotted", "raised"} =>
        /\ (TestLen < 2) <=> (pc = "raised" /\ raised = "UnboundLocalError")
        /\ pc = "plotted" =>
               /\ Len(btc_result.btc_price_data) >= 2
               /\ Len(btc_result.btc_price_data) = TestLen
               /\ saved_plots # {}
        /\ pc = "raised" => saved_plots = {}

C14_Witness ==
    /\ pc = "raised"
    /\ raised = "UnboundLocalError"
    /\ TestStart >= 1
    /\ TestLen = 1
    /\ saved_plots = {}

====
